---- MODULE Spec2Model ----
(***************************************************************************)
(* Streaming speech-to-text pipeline of src/Untitled67.ipynb:              *)
(* CharTokenizer (codec), RealTimeStreamer (windowing, energy gate,        *)
(* greedy decode, worker thread, result queue, iterator and batch modes).  *)
(* Also the epoch loop of LibriSpeechTTSTrainer.train (src/test2.ipynb):  *)
(* validation, early stopping and the final checkpoint.                    *)
(*                                                                         *)
(* Text is a sequence of one-character strings.  Audio samples are         *)
(* integers, in hundredths of full scale.  The acoustic model is a black   *)
(* box: each invocation returns some per-frame argmax label sequence.      *)
(***************************************************************************)
EXTENDS Integers, Sequences, FiniteSets, TLC

VARIABLES
    \* ---- RealTimeStreamer fields (src/Untitled67.ipynb:302-321)
    chunk_size,      \* self.chunk_size
    overlap_size,    \* self.overlap_size
    is_streaming,    \* self.is_streaming
    result_queue,    \* self.result_queue: FIFO of transcriptions
    \* ---- the audio every mode is run on (file content / caller's buffer)
    waveform,
    \* ---- threads started by simulate_streaming_from_file
    threads,         \* one record per started worker thread: pc, loop variable i,
                     \* and `late`: its dispatches since the last stop_streaming
                     \* that were made while the flag was false (history)
    \* ---- the calling (main) thread
    starts_left,     \* how many more streams the caller is going to start
    returned,        \* outcome of the process_uploaded_audio call
    gen_pc,          \* generator of process_from_microphone_data:
                     \* "none" | "created" | "suspended" | "exhausted" | "raised"
    gen_i,           \* its loop variable i (the next value of its range)
    yielded,         \* transcriptions the generator has yielded so far
    last_poll,       \* return value of the last get_latest_transcription
    \* ---- history (not program state): who did what
    queue_src,       \* for each queued result, the window <<mode, thread, offset>>
    puts,            \* every result ever put on result_queue, in order, as
                     \* [src: its window, text]
    got,             \* every result a poll has returned, in order, likewise
    gated,           \* windows <<mode, thread, offset>> handed to the energy gate
    calls,           \* windows <<mode, thread, offset>> dispatched to the model
    failed,          \* windows <<mode, thread, offset>> on which the model raised
    \* ---- codec harness
    tk_pc, tk_text, tk_ids, tk_out,
    \* ---- the trainer (LibriSpeechTTSTrainer of test2.ipynb)
    tr_pc,            \* train(): "off" | "idle" | "loop" | "finally" | "returned"
    tr_args,          \* the trainer's val_dataloader (has_val) and the arguments
                      \* of the current call: its range of epochs, validate_freq
    calls_left,       \* how many more times the caller is going to call train()
    current_epoch,    \* self.current_epoch
    best_val_loss,    \* self.best_val_loss
    patience_counter, \* self.patience_counter
    tr_hist           \* history: validation losses seen (their set, the last
                      \* one, and a bit flipped by every validated epoch), how
                      \* the loop of the current call was left, and the final
                      \* checkpoints it has saved

streamVars == <<chunk_size, overlap_size, is_streaming, result_queue, waveform,
                threads, starts_left, returned, gen_pc, gen_i, yielded,
                last_poll, queue_src, puts, got, gated, calls, failed>>
codecVars == <<tk_pc, tk_text, tk_ids, tk_out>>
trainVars == <<tr_pc, tr_args, calls_left, current_epoch, best_val_loss,
               patience_counter, tr_hist>>
vars == <<streamVars, codecVars, trainVars>>

(***************************************************************************)
(* Bounds of the model.                                                    *)
(***************************************************************************)
MaxText == 3        \* longest text given to encode
MaxFrames == 5      \* longest label sequence given to decode
MaxSamples == 5     \* longest waveform
MaxRestartSamples == 4   \* longest waveform given to two successive streams
MaxExcess == 2      \* largest overlap_size - chunk_size
MaxEpochs == 22     \* largest num_epochs given to train()
MaxLoss == 3        \* validation losses are 1..MaxLoss

(***************************************************************************)
(* Generic sequence helpers.                                               *)
(***************************************************************************)
RECURSIVE Concat(_)
Concat(ss) == IF ss = <<>> THEN <<>> ELSE Head(ss) \o Concat(Tail(ss))

RECURSIVE SeqsUpTo(_, _)
SeqsUpTo(S, n) ==
    IF n = 0 THEN {<<>>}
    ELSE LET shorter == SeqsUpTo(S, n - 1)
         IN  shorter \cup {Append(s, x) : s \in {t \in shorter : Len(t) = n - 1}, x \in S}

(***************************************************************************)
(* CharTokenizer (src/Untitled67.ipynb:134-149).                           *)
(***************************************************************************)
\* self.chars: Python index k is position k + 1 here.
chars == <<" ", "A", "B", "C", "D", "E", "F", "G", "H", "I", "J", "K", "L", "M",
           "N", "O", "P", "Q", "R", "S", "T", "U", "V", "W", "X", "Y", "Z", "'">>

\* the lower-case letters, in the order of their upper-case forms in chars
lower == <<"a", "b", "c", "d", "e", "f", "g", "h", "i", "j", "k", "l", "m",
           "n", "o", "p", "q", "r", "s", "t", "u", "v", "w", "x", "y", "z">>

CharSet == {chars[k] : k \in 1..Len(chars)}

\* self.char_to_idx = {char: idx for idx, char in enumerate(self.chars)}
char_to_idx == [c \in CharSet |-> (CHOOSE k \in 1..Len(chars) : chars[k] = c) - 1]

\* self.idx_to_char = {idx: char for idx, char in enumerate(self.chars)}
idx_to_char == [k \in 0..(Len(chars) - 1) |-> chars[k + 1]]

blank_idx == 0

vocab_size == Len(chars)

\* str.upper() of one character: a sequence, since upper-casing may lengthen
\* (the sharp s becomes "SS"); characters without case map to themselves.
UpperChar(c) ==
    IF \E k \in 1..Len(lower) : lower[k] = c
    THEN <<chars[(CHOOSE k \in 1..Len(lower) : lower[k] = c) + 1]>>
    ELSE IF c = "ß" THEN <<"S", "S">>
    ELSE <<c>>

\* text.upper()
upper(text) == Concat([k \in 1..Len(text) |-> UpperChar(text[k])])

\* the characters str.strip() removes (of those that occur here)
Whitespace == {" ", "\t", "\n"}

RECURSIVE LStrip(_)
LStrip(s) == IF s # <<>> /\ Head(s) \in Whitespace THEN LStrip(Tail(s)) ELSE s

RECURSIVE RStrip(_)
RStrip(s) ==
    IF s # <<>> /\ s[Len(s)] \in Whitespace THEN RStrip(SubSeq(s, 1, Len(s) - 1)) ELSE s

\* str.strip()
strip(s) == RStrip(LStrip(s))

\* encode without the call of text.upper()
encode_noupper(text) ==
    [k \in 1..Len(text) |->
        IF text[k] \in DOMAIN char_to_idx THEN char_to_idx[text[k]]
        ELSE char_to_idx[" "]]

\* CharTokenizer.encode
encode(text) ==
    LET t == upper(text)
    IN  [k \in 1..Len(t) |->
            IF t[k] \in DOMAIN char_to_idx THEN char_to_idx[t[k]] ELSE char_to_idx[" "]]

\* the list comprehension of decode: one string ('' or a character) per kept index
DecodeChars(indices) ==
    LET kept == SelectSeq(indices, LAMBDA idx : idx # blank_idx)
    IN  [k \in 1..Len(kept) |->
            IF kept[k] \in DOMAIN idx_to_char THEN <<idx_to_char[kept[k]]>> ELSE <<>>]

\* CharTokenizer.decode
decode(indices) == strip(Concat(DecodeChars(indices)))

(***************************************************************************)
(* Python and numpy primitives the streamer uses.                          *)
(***************************************************************************)
\* a slice bound clamped the way Python clamps it (negative counts from the end)
PyIndex(x, n) ==
    IF x < 0 THEN (IF x + n < 0 THEN 0 ELSE x + n) ELSE (IF x > n THEN n ELSE x)

\* s[a:b]
PySlice(s, a, b) ==
    LET lo == PyIndex(a, Len(s))
        hi == PyIndex(b, Len(s))
    IN  IF lo < hi THEN SubSeq(s, lo + 1, hi) ELSE <<>>

\* membership in range(0, stop + chunk_size, step): the loops written with
\* len(waveform) as their stop
InRange_nostop(v, stop, step) ==
    (step > 0 /\ v < stop + chunk_size) \/ (step < 0 /\ v > stop + chunk_size)

\* whether v is a value of range(0, stop, step), given that v is a multiple of step
InRange(v, stop, step) == (step > 0 /\ v < stop) \/ (step < 0 /\ v > stop)

\* np.sum(audio_chunk ** 2), in 1/10000
RECURSIVE SumSq(_)
SumSq(chunk) ==
    IF chunk = <<>> THEN 0 ELSE Head(chunk) * Head(chunk) + SumSq(Tail(chunk))

(***************************************************************************)
(* RealTimeStreamer: pure parts.                                           *)
(***************************************************************************)
sample_rate == 16000

\* _detect_speech_energy without the division by len(audio_chunk)
detect_speech_energy_sum(audio_chunk) ==
    Len(audio_chunk) > 0 /\ 1000 * SumSq(audio_chunk) > 10000

\* _detect_speech_energy with the comparison turned round
detect_speech_energy_inverted(audio_chunk) ==
    Len(audio_chunk) > 0 /\ 1000 * SumSq(audio_chunk) < 10000 * Len(audio_chunk)

\* RealTimeStreamer._detect_speech_energy: energy > 0.001 with
\* energy = (SumSq / 10000) / len; an empty chunk gives nan, and nan > 0.001 is False
detect_speech_energy(audio_chunk) ==
    Len(audio_chunk) > 0 /\ 1000 * SumSq(audio_chunk) > 10000 * Len(audio_chunk)

\* what self.model + torch.argmax may return for a chunk
ModelOutputs == {<<0, 0, 0>>, <<0, 8, 9>>}

\* process_audio_chunk without its check of len(audio_chunk)
InvokesModel_always(audio_chunk) == TRUE

\* whether process_audio_chunk reaches self.model(audio_chunk)
InvokesModel(audio_chunk) == ~(Len(audio_chunk) < chunk_size)

\* RealTimeStreamer.process_audio_chunk, predicted_ids being the model's argmax
process_audio_chunk(audio_chunk, predicted_ids) ==
    IF Len(audio_chunk) < chunk_size THEN <<>> ELSE decode(predicted_ids)

\* i // self.sample_rate instead of i / self.sample_rate
Timestamp_floor(i) == <<i \div sample_rate, 1>>

\* i / self.sample_rate, as the fraction <<numerator, denominator>>
Timestamp(i) == <<i, sample_rate>>

\* a < b for two fractions with positive denominators
TsLess(a, b) == a[1] * b[2] < b[1] * a[2]

\* waveform[i:i + self.chunk_size]
ChunkAt(i) == PySlice(waveform, i, i + chunk_size)

(***************************************************************************)
(* The worker thread: RealTimeStreamer._simulate_realtime_processing.      *)
(* pc: "top" at the for statement, "gate" with the flag read as true,      *)
(* "infer" inside self.model, then "exhausted" | "stopped" | "raised".     *)
(***************************************************************************)
\* step_size = self.chunk_size - self.overlap_size
step_size == chunk_size - overlap_size

SetThread(t, rec) == [threads EXCEPT ![t] = rec]

\* the loop top without the check of self.is_streaming
WorkerTop_noflag(t) ==
    /\ threads[t].pc = "top"
    /\ threads' = SetThread(t, [threads[t] EXCEPT !.pc =
            IF step_size = 0 THEN "raised"
            ELSE IF ~InRange(threads[t].i, Len(waveform) - chunk_size, step_size)
                 THEN "exhausted"
            ELSE "gate"])
    /\ UNCHANGED <<trainVars, failed, chunk_size, overlap_size, starts_left, is_streaming, result_queue,
                   waveform, returned, gen_pc, gen_i, yielded, last_poll, queue_src,
                   puts, got, gated, calls, codecVars>>

\* for i in range(0, len(waveform) - self.chunk_size, step_size):
\*     if not self.is_streaming: break
WorkerTop(t) ==
    /\ threads[t].pc = "top"
    /\ threads' = SetThread(t, [threads[t] EXCEPT !.pc =
            IF step_size = 0 THEN "raised"
            ELSE IF ~InRange(threads[t].i, Len(waveform) - chunk_size, step_size)
                 THEN "exhausted"
            ELSE IF ~is_streaming THEN "stopped"
            ELSE "gate"])
    /\ UNCHANGED <<trainVars, failed, chunk_size, overlap_size, starts_left, is_streaming, result_queue, waveform,
                   returned, gen_pc, gen_i, yielded, last_poll, queue_src, puts,
                   got, gated, calls, codecVars>>

\* chunk = waveform[i:i + chunk_size]; is_speech = _detect_speech_energy(chunk);
\* if is_speech: enter process_audio_chunk, up to the call of self.model;
\* otherwise time.sleep and on to the next i
WorkerGate(t) ==
    /\ threads[t].pc = "gate"
    /\ LET i == threads[t].i
           chunk == ChunkAt(i)
       IN  /\ gated' = gated \cup {<<"thread", t, i>>}
           /\ IF detect_speech_energy(chunk) /\ InvokesModel(chunk)
              THEN /\ calls' = calls \cup {<<"thread", t, i>>}
                   /\ threads' = SetThread(t, [threads[t] EXCEPT
                          !.pc = "infer",
                          !.late = @ + (IF is_streaming THEN 0 ELSE 1)])
              ELSE /\ calls' = calls
                   /\ threads' = SetThread(t, [threads[t] EXCEPT
                          !.pc = "top", !.i = i + step_size])
    /\ UNCHANGED <<trainVars, failed, chunk_size, overlap_size, starts_left, is_streaming, result_queue, waveform,
                   returned, gen_pc, gen_i, yielded, last_poll, queue_src, puts,
                   got, codecVars>>

\* self.model returns; transcription = tokenizer.decode(argmax);
\* if transcription.strip(): self.result_queue.put(transcription); time.sleep
WorkerInfer(t) ==
    /\ threads[t].pc = "infer"
    /\ \E predicted_ids \in ModelOutputs :
         LET i == threads[t].i
             transcription == process_audio_chunk(ChunkAt(i), predicted_ids)
         IN  /\ IF strip(transcription) # <<>>
                THEN /\ result_queue' = Append(result_queue, transcription)
                     /\ queue_src' = Append(queue_src, <<"thread", t, i>>)
                     /\ puts' = Append(puts, [src |-> <<"thread", t, i>>,
                                               text |-> transcription])
                ELSE UNCHANGED <<result_queue, queue_src, puts>>
             /\ threads' = SetThread(t, [threads[t] EXCEPT
                    !.pc = "top", !.i = i + step_size])
    /\ UNCHANGED <<trainVars, failed, chunk_size, overlap_size, starts_left, is_streaming, waveform,
                   returned, gen_pc, gen_i, yielded, last_poll,
                   got, gated, calls, codecVars>>

(***************************************************************************)
(* The control entry points, called from the main thread.                  *)
(***************************************************************************)
\* RealTimeStreamer.simulate_streaming_from_file (start_streaming_from_file)
simulate_streaming_from_file ==
    /\ starts_left > 0
    /\ returned.status = "none"
    /\ starts_left' = starts_left - 1
    /\ is_streaming' = TRUE
    /\ threads' = Append(threads, [pc |-> "top", i |-> 0, late |-> 0])
    /\ UNCHANGED <<trainVars, failed, chunk_size, overlap_size, result_queue, waveform,
                   returned, gen_pc, gen_i, yielded, last_poll, queue_src, puts,
                   got, gated, calls, codecVars>>

\* RealTimeStreamer.stop_streaming
stop_streaming ==
    /\ is_streaming' = FALSE
    /\ threads' = [t \in DOMAIN threads |-> [threads[t] EXCEPT !.late = 0]]
    /\ UNCHANGED <<trainVars, failed, chunk_size, overlap_size, starts_left, result_queue, waveform,
                   returned, gen_pc, gen_i, yielded, last_poll, queue_src, puts,
                   got, gated, calls, codecVars>>

NoResult == [none |-> TRUE, text |-> <<>>]
Result(text) == [none |-> FALSE, text |-> text]

\* get_latest_transcription taking the newest result instead of the oldest
get_latest_transcription_lifo ==
    /\ IF result_queue = <<>>
       THEN /\ last_poll' = NoResult
            /\ UNCHANGED <<result_queue, queue_src, got>>
       ELSE /\ last_poll' = Result(result_queue[Len(result_queue)])
            /\ result_queue' = SubSeq(result_queue, 1, Len(result_queue) - 1)
            /\ queue_src' = SubSeq(queue_src, 1, Len(queue_src) - 1)
            /\ got' = Append(got, [src |-> queue_src[Len(queue_src)],
                                    text |-> result_queue[Len(result_queue)]])
    /\ UNCHANGED <<trainVars, failed, chunk_size, overlap_size, starts_left, is_streaming, waveform,
                   threads, returned, gen_pc, gen_i, yielded, puts, gated, calls,
                   codecVars>>

\* get_latest_transcription reading the oldest result without removing it
get_latest_transcription_peek ==
    /\ IF result_queue = <<>>
       THEN /\ last_poll' = NoResult
            /\ UNCHANGED got
       ELSE /\ last_poll' = Result(Head(result_queue))
            /\ got' = Append(got, [src |-> Head(queue_src),
                                    text |-> Head(result_queue)])
    /\ Len(got) <= MaxSamples
    /\ UNCHANGED <<trainVars, failed, chunk_size, overlap_size, starts_left, is_streaming, waveform,
                   threads, returned, gen_pc, gen_i, yielded, puts, gated, calls,
                   codecVars, result_queue, queue_src>>

\* get_latest_transcription with the blocking result_queue.get()
get_latest_transcription_blocking ==
    /\ result_queue # <<>>
    /\ last_poll' = Result(Head(result_queue))
    /\ result_queue' = Tail(result_queue)
    /\ queue_src' = Tail(queue_src)
    /\ got' = Append(got, [src |-> Head(queue_src), text |-> Head(result_queue)])
    /\ UNCHANGED <<trainVars, failed, chunk_size, overlap_size, starts_left, is_streaming, waveform,
                   threads, returned, gen_pc, gen_i, yielded, puts, gated, calls,
                   codecVars>>

\* RealTimeStreamer.get_latest_transcription
get_latest_transcription ==
    /\ IF result_queue = <<>>
       THEN /\ last_poll' = NoResult
            /\ UNCHANGED <<result_queue, queue_src, got>>
       ELSE /\ last_poll' = Result(Head(result_queue))
            /\ result_queue' = Tail(result_queue)
            /\ queue_src' = Tail(queue_src)
            /\ got' = Append(got, [src |-> Head(queue_src),
                                    text |-> Head(result_queue)])
    /\ UNCHANGED <<trainVars, failed, chunk_size, overlap_size, starts_left, is_streaming, waveform, threads,
                   returned, gen_pc, gen_i, yielded, puts, gated, calls, codecVars>>

(***************************************************************************)
(* The batch mode: RealTimeStreamer.process_uploaded_audio.  It runs in    *)
(* the caller's thread from call to return, reads only chunk_size and the  *)
(* audio and writes nothing the other modes read, so the call is one step  *)
(* and commutes with every other step.  The harness therefore makes it     *)
(* once, when no worker or iteration is in progress, as the last use of    *)
(* the streamer.                                                           *)
(***************************************************************************)
\* the ways the for loop of process_uploaded_audio can end when run from
\* offset i on; acc is [results, heard, gated, calls] so far, heard being the
\* transcription of every window the model was invoked on
RECURSIVE UploadLoop(_, _)
UploadLoop(i, acc) ==
    LET step == chunk_size \div 2
        chunk == ChunkAt(i)
        seen == [acc EXCEPT !.gated = @ \cup {<<"upload", 0, i>>}]
    IN  IF ~InRange(i, Len(waveform) - chunk_size, step) THEN {acc}
        ELSE IF ~detect_speech_energy(chunk) THEN UploadLoop(i + step, seen)
        ELSE IF ~InvokesModel(chunk) THEN UploadLoop(i + step, seen)
        ELSE UNION {
               LET transcription == process_audio_chunk(chunk, predicted_ids)
                   timestamp == Timestamp(i)
               IN  UploadLoop(i + step,
                       [seen EXCEPT
                           !.calls = @ \cup {<<"upload", 0, i>>},
                           !.heard = @ \cup {<<i, transcription>>},
                           !.results = IF strip(transcription) # <<>>
                                       THEN Append(@, <<timestamp, transcription>>)
                                       ELSE @])
               : predicted_ids \in ModelOutputs }

Quiescent ==
    /\ \A t \in DOMAIN threads : threads[t].pc \in {"exhausted", "stopped", "raised"}
    /\ gen_pc \in {"none", "exhausted", "raised"}

process_uploaded_audio ==
    /\ returned.status = "none"
    /\ Quiescent
    /\ IF chunk_size \div 2 = 0
       THEN \* range() arg 3 must not be zero: ValueError
            /\ returned' = [status |-> "raised", list |-> <<>>, heard |-> {}]
            /\ UNCHANGED <<gated, calls>>
       ELSE \E out \in UploadLoop(0, [results |-> <<>>, heard |-> {},
                                      gated |-> {}, calls |-> {}]) :
              /\ returned' = [status |-> "ok", list |-> out.results,
                              heard |-> out.heard]
              /\ gated' = gated \cup out.gated
              /\ calls' = calls \cup out.calls
    /\ UNCHANGED <<trainVars, failed, chunk_size, overlap_size, starts_left, is_streaming, result_queue, waveform,
                   threads, gen_pc, gen_i, yielded, last_poll, queue_src, puts,
                   got, codecVars>>

(***************************************************************************)
(* The iterator mode: RealTimeStreamer.process_from_microphone_data is a   *)
(* generator.  Calling it runs nothing; each next() runs its body in the   *)
(* caller's thread up to the next yield or to the end.  Of the shared      *)
(* state the body only writes is_streaming, as its first statement.        *)
(***************************************************************************)
\* the ways the generator's for loop can run from offset i on, up to its next
\* yield or its end; acc is [pc, i, out, gated, calls]
RECURSIVE GenLoop(_, _)
GenLoop(i, acc) ==
    LET step == chunk_size \div 2
        chunk == ChunkAt(i)
        seen == [acc EXCEPT !.gated = @ \cup {<<"gen", 0, i>>}]
    IN  IF ~InRange(i, Len(waveform) - chunk_size, step)
        THEN {[acc EXCEPT !.pc = "exhausted", !.i = i]}
        ELSE IF ~detect_speech_energy(chunk) THEN GenLoop(i + step, seen)
        ELSE IF ~InvokesModel(chunk) THEN GenLoop(i + step, seen)
        ELSE UNION {
               LET transcription == process_audio_chunk(chunk, predicted_ids)
                   called == [seen EXCEPT !.calls = @ \cup {<<"gen", 0, i>>}]
               IN  IF strip(transcription) # <<>>
                   THEN {[called EXCEPT !.pc = "suspended", !.i = i + step,
                                        !.out = <<transcription>>]}
                   ELSE GenLoop(i + step, called)
               : predicted_ids \in ModelOutputs }

\* process_from_microphone_data as a plain function: the call itself runs
\* the body, here up to the gate of the first window
process_from_microphone_data_eager ==
    /\ gen_pc = "none"
    /\ returned.status = "none"
    /\ gen_pc' = "created"
    /\ gated' = gated \cup {<<"gen", 0, 0>>}
    /\ UNCHANGED <<trainVars, failed, chunk_size, overlap_size, starts_left, is_streaming,
                   result_queue, waveform, threads, returned, gen_i, yielded,
                   last_poll, queue_src, puts, got, calls, codecVars>>

\* gen = streamer.process_from_microphone_data(audio_data)
process_from_microphone_data ==
    /\ gen_pc = "none"
    /\ returned.status = "none"
    /\ gen_pc' = "created"
    /\ UNCHANGED <<trainVars, failed, chunk_size, overlap_size, starts_left, is_streaming, result_queue, waveform,
                   threads, returned, gen_i, yielded, last_poll, queue_src, puts,
                   got, gated, calls, codecVars>>

\* next(gen) of a generator whose loop, like the worker's, starts each
\* iteration with `if not self.is_streaming: break`
GenNext_checksflag ==
    /\ gen_pc \in {"created", "suspended", "exhausted", "raised"}
    /\ is_streaming' = IF gen_pc = "created" THEN TRUE ELSE is_streaming
    /\ IF gen_pc \in {"exhausted", "raised"}
       THEN UNCHANGED <<gen_pc, gen_i, yielded, gated, calls>>
       ELSE IF gen_pc = "suspended" /\ ~is_streaming
       THEN /\ gen_pc' = "exhausted"
            /\ UNCHANGED <<gen_i, yielded, gated, calls>>
       ELSE IF chunk_size \div 2 = 0
       THEN \* range() arg 3 must not be zero: ValueError
            /\ gen_pc' = "raised"
            /\ UNCHANGED <<gen_i, yielded, gated, calls>>
       ELSE \E out \in GenLoop(gen_i, [pc |-> gen_pc, i |-> gen_i, out |-> <<>>,
                                       gated |-> {}, calls |-> {}]) :
              /\ gen_pc' = out.pc
              /\ gen_i' = out.i
              /\ yielded' = yielded \o out.out
              /\ gated' = gated \cup out.gated
              /\ calls' = calls \cup out.calls
    /\ UNCHANGED <<trainVars, failed, chunk_size, overlap_size, starts_left, result_queue, waveform,
                   threads, returned, last_poll, queue_src, puts, got, codecVars>>

\* next(gen); on a generator that has finished (by falling off its loop or by
\* an exception) it raises StopIteration and runs nothing of the body
GenNext ==
    /\ gen_pc \in {"created", "suspended", "exhausted", "raised"}
    /\ is_streaming' = IF gen_pc = "created" THEN TRUE ELSE is_streaming
    /\ IF gen_pc \in {"exhausted", "raised"}
       THEN UNCHANGED <<gen_pc, gen_i, yielded, gated, calls>>
       ELSE IF chunk_size \div 2 = 0
       THEN \* range() arg 3 must not be zero: ValueError
            /\ gen_pc' = "raised"
            /\ UNCHANGED <<gen_i, yielded, gated, calls>>
       ELSE \E out \in GenLoop(gen_i, [pc |-> gen_pc, i |-> gen_i, out |-> <<>>,
                                       gated |-> {}, calls |-> {}]) :
              /\ gen_pc' = out.pc
              /\ gen_i' = out.i
              /\ yielded' = yielded \o out.out
              /\ gated' = gated \cup out.gated
              /\ calls' = calls \cup out.calls
    /\ UNCHANGED <<trainVars, failed, chunk_size, overlap_size, starts_left, result_queue, waveform,
                   threads, returned, last_poll, queue_src, puts, got, codecVars>>

(***************************************************************************)
(* The streamer: one RealTimeStreamer, one audio input, a main thread      *)
(* calling the entry points in any order, and the worker threads.          *)
(***************************************************************************)
\* amplitudes 0.00 and 0.04: a chunk is speech iff more than 5/8 of it is loud
Samples == {0, 4}
Waveforms == SeqsUpTo(Samples, MaxSamples)
ChunkSizes == {2, 3}

\* no trainer
TrainerOff ==
    /\ tr_pc = "off"
    /\ tr_args = <<>>
    /\ calls_left = 0
    /\ current_epoch = 0
    /\ best_val_loss = 0
    /\ patience_counter = 0
    /\ tr_hist = <<>>

CodecOff ==
    /\ tk_pc = "off"
    /\ tk_text = <<>>
    /\ tk_ids = <<>>
    /\ tk_out = <<>>

\* RealTimeStreamer.__init__, and the audio
Init ==
    /\ chunk_size \in ChunkSizes
    /\ overlap_size \in 0..(chunk_size - 1)
    /\ waveform \in Waveforms
    /\ is_streaming = FALSE
    /\ result_queue = <<>>
    /\ threads = <<>>
    /\ starts_left = 1
    /\ returned = [status |-> "none", list |-> <<>>, heard |-> {}]
    /\ gen_pc = "none"
    /\ gen_i = 0
    /\ yielded = <<>>
    /\ last_poll = NoResult
    /\ queue_src = <<>>
    /\ puts = <<>>
    /\ got = <<>>
    /\ gated = {}
    /\ calls = {}
    /\ failed = {}
    /\ CodecOff
    /\ TrainerOff

Next ==
    \/ \E t \in DOMAIN threads : WorkerTop(t)
    \/ \E t \in DOMAIN threads : WorkerGate(t)
    \/ \E t \in DOMAIN threads : WorkerInfer(t)
    \/ simulate_streaming_from_file
    \/ stop_streaming
    \/ get_latest_transcription
    \/ process_uploaded_audio
    \/ process_from_microphone_data
    \/ GenNext

Spec == Init /\ [][Next]_vars

\* The worker is a thread of its own: the scheduler runs it, time.sleep
\* returns and (here) so does the model, so a worker that can take a step
\* eventually takes it.  Nothing is assumed of the main thread.
WorkerStep == \E t \in DOMAIN threads : WorkerTop(t) \/ WorkerGate(t) \/ WorkerInfer(t)

SpecLive == Spec /\ WF_vars(WorkerStep)

(***************************************************************************)
(* Two streams on one streamer.  simulate_streaming_from_file starts a     *)
(* thread whenever it is called; it neither joins nor looks for the thread *)
(* of an earlier call.  Here the caller is disciplined: it starts a stream *)
(* only when none was started yet or after it has called stop_streaming.   *)
(***************************************************************************)
InitRestart ==
    /\ chunk_size = 2
    /\ overlap_size \in 0..(chunk_size - 1)
    /\ waveform \in SeqsUpTo(Samples, MaxRestartSamples)
    /\ is_streaming = FALSE
    /\ result_queue = <<>>
    /\ threads = <<>>
    /\ starts_left = 2
    /\ returned = [status |-> "none", list |-> <<>>, heard |-> {}]
    /\ gen_pc = "none"
    /\ gen_i = 0
    /\ yielded = <<>>
    /\ last_poll = NoResult
    /\ queue_src = <<>>
    /\ puts = <<>>
    /\ got = <<>>
    /\ gated = {}
    /\ calls = {}
    /\ failed = {}
    /\ CodecOff
    /\ TrainerOff

\* a call of simulate_streaming_from_file made while the flag is false: the
\* first start, or a start after stop_streaming
StartStopped == ~is_streaming /\ simulate_streaming_from_file

NextRestart ==
    \/ \E t \in DOMAIN threads : WorkerTop(t)
    \/ \E t \in DOMAIN threads : WorkerGate(t)
    \/ \E t \in DOMAIN threads : WorkerInfer(t)
    \/ StartStopped
    \/ stop_streaming
    \/ get_latest_transcription

SpecRestart == InitRestart /\ [][NextRestart]_vars

(***************************************************************************)
(* Any overlap.  __init__ takes chunk_duration and overlap as they come:   *)
(* nothing requires overlap < chunk_duration, so overlap_size may equal or *)
(* exceed chunk_size and the worker's step may be zero or negative.        *)
(***************************************************************************)
InitOverlap ==
    /\ chunk_size \in ChunkSizes
    /\ overlap_size \in 0..(chunk_size + MaxExcess)
    /\ waveform \in Waveforms
    /\ is_streaming = FALSE
    /\ result_queue = <<>>
    /\ threads = <<>>
    /\ starts_left = 1
    /\ returned = [status |-> "none", list |-> <<>>, heard |-> {}]
    /\ gen_pc = "none"
    /\ gen_i = 0
    /\ yielded = <<>>
    /\ last_poll = NoResult
    /\ queue_src = <<>>
    /\ puts = <<>>
    /\ got = <<>>
    /\ gated = {}
    /\ calls = {}
    /\ failed = {}
    /\ CodecOff
    /\ TrainerOff

\* the file mode on its own: start, stop, poll and the worker
NextOverlap ==
    \/ \E t \in DOMAIN threads : WorkerTop(t)
    \/ \E t \in DOMAIN threads : WorkerGate(t)
    \/ \E t \in DOMAIN threads : WorkerInfer(t)
    \/ simulate_streaming_from_file
    \/ stop_streaming
    \/ get_latest_transcription

SpecOverlap == InitOverlap /\ [][NextOverlap]_vars /\ WF_vars(WorkerStep)

(***************************************************************************)
(* A model that can fail.  No caller of self.model catches anything:       *)
(* process_audio_chunk has no try, nor have the three loops, and the       *)
(* worker thread's target is the loop itself.  An exception of the model   *)
(* therefore unwinds the loop it was called from: it ends the worker       *)
(* thread, it leaves next(gen) with the generator finished, it leaves      *)
(* process_uploaded_audio before its return.                               *)
(***************************************************************************)
\* the worker with the call of process_audio_chunk in a try whose handler
\* goes on to the next window
WorkerInferRaises_swallowed(t) ==
    /\ threads[t].pc = "infer"
    /\ failed' = failed \cup {<<"thread", t, threads[t].i>>}
    /\ threads' = SetThread(t, [threads[t] EXCEPT
           !.pc = "top", !.i = @ + step_size])
    /\ UNCHANGED <<trainVars, chunk_size, overlap_size, starts_left, is_streaming,
                   result_queue, waveform, returned, gen_pc, gen_i, yielded,
                   last_poll, queue_src, puts, got, gated, calls, codecVars>>

\* self.model raises in the worker: the exception leaves
\* _simulate_realtime_processing and the thread ends, at window i
WorkerInferRaises(t) ==
    /\ threads[t].pc = "infer"
    /\ failed' = failed \cup {<<"thread", t, threads[t].i>>}
    /\ threads' = SetThread(t, [threads[t] EXCEPT !.pc = "raised"])
    /\ UNCHANGED <<trainVars, chunk_size, overlap_size, starts_left, is_streaming,
                   result_queue, waveform, returned, gen_pc, gen_i, yielded,
                   last_poll, queue_src, puts, got, gated, calls, codecVars>>

\* the ways the generator's for loop can run from offset i on up to a window
\* on which the model raises, without a yield before it; acc as in GenLoop
RECURSIVE GenLoopRaises(_, _)
GenLoopRaises(i, acc) ==
    LET step == chunk_size \div 2
        chunk == ChunkAt(i)
        seen == [acc EXCEPT !.gated = @ \cup {<<"gen", 0, i>>}]
        called == [seen EXCEPT !.calls = @ \cup {<<"gen", 0, i>>}]
    IN  IF ~InRange(i, Len(waveform) - chunk_size, step) THEN {}
        ELSE IF ~detect_speech_energy(chunk) THEN GenLoopRaises(i + step, seen)
        ELSE IF ~InvokesModel(chunk) THEN GenLoopRaises(i + step, seen)
        ELSE {[called EXCEPT !.pc = "raised", !.i = i]}
             \cup UNION {
               IF strip(process_audio_chunk(chunk, predicted_ids)) # <<>>
               THEN {}
               ELSE GenLoopRaises(i + step, called)
               : predicted_ids \in ModelOutputs }

\* next(gen) during which self.model raises: the exception reaches the caller
\* of next() and the generator is finished
GenNextRaises ==
    /\ gen_pc \in {"created", "suspended"}
    /\ chunk_size \div 2 # 0
    /\ is_streaming' = IF gen_pc = "created" THEN TRUE ELSE is_streaming
    /\ \E out \in GenLoopRaises(gen_i, [pc |-> gen_pc, i |-> gen_i, out |-> <<>>,
                                        gated |-> {}, calls |-> {}]) :
          /\ gen_pc' = out.pc
          /\ gen_i' = out.i
          /\ gated' = gated \cup out.gated
          /\ calls' = calls \cup out.calls
          /\ failed' = failed \cup {<<"gen", 0, out.i>>}
    /\ UNCHANGED <<trainVars, chunk_size, overlap_size, starts_left, result_queue, waveform,
                   threads, returned, yielded, last_poll, queue_src, puts, got,
                   codecVars>>

\* the ways the for loop of process_uploaded_audio can run from offset i on
\* up to a window on which the model raises; acc as in UploadLoop, with the
\* offset `at` of that window
RECURSIVE UploadLoopRaises(_, _)
UploadLoopRaises(i, acc) ==
    LET step == chunk_size \div 2
        chunk == ChunkAt(i)
        seen == [acc EXCEPT !.gated = @ \cup {<<"upload", 0, i>>}]
        called == [seen EXCEPT !.calls = @ \cup {<<"upload", 0, i>>}]
    IN  IF ~InRange(i, Len(waveform) - chunk_size, step) THEN {}
        ELSE IF ~detect_speech_energy(chunk) THEN UploadLoopRaises(i + step, seen)
        ELSE IF ~InvokesModel(chunk) THEN UploadLoopRaises(i + step, seen)
        ELSE {[called EXCEPT !.at = i]}
             \cup UNION {
               LET transcription == process_audio_chunk(chunk, predicted_ids)
               IN  UploadLoopRaises(i + step,
                       [called EXCEPT
                           !.heard = @ \cup {<<i, transcription>>},
                           !.results = IF strip(transcription) # <<>>
                                       THEN Append(@, <<Timestamp(i), transcription>>)
                                       ELSE @])
               : predicted_ids \in ModelOutputs }

\* process_uploaded_audio during which self.model raises: the exception
\* reaches the caller, the local list `results` is never returned
UploadRaises ==
    /\ returned.status = "none"
    /\ Quiescent
    /\ chunk_size \div 2 # 0
    /\ \E out \in UploadLoopRaises(0, [results |-> <<>>, heard |-> {},
                                       gated |-> {}, calls |-> {}, at |-> 0]) :
          /\ returned' = [status |-> "raised", list |-> <<>>, heard |-> out.heard]
          /\ gated' = gated \cup out.gated
          /\ calls' = calls \cup out.calls
          /\ failed' = failed \cup {<<"upload", 0, out.at>>}
    /\ UNCHANGED <<trainVars, chunk_size, overlap_size, starts_left, is_streaming,
                   result_queue, waveform, threads, gen_pc, gen_i, yielded,
                   last_poll, queue_src, puts, got, codecVars>>

NextFail ==
    \/ Next
    \/ \E t \in DOMAIN threads : WorkerInferRaises(t)
    \/ GenNextRaises
    \/ UploadRaises

SpecFail == Init /\ [][NextFail]_vars

(***************************************************************************)
(* The codec on its own: texts through encode and decode, and label        *)
(* sequences (the model's per-frame argmax) through process_audio_chunk.   *)
(***************************************************************************)
\* characters of the texts tried: vocabulary characters in both cases, and
\* two characters outside the vocabulary
InputChars == {" ", "A", "h", "i", "'", "?", "ß"}
Texts == SeqsUpTo(InputChars, MaxText)

\* labels of the sequences tried: blank, H, I, and one index past the table
Labels == {0, 8, 9, 28}
LabelSeqs == SeqsUpTo(Labels, MaxFrames)

StreamerIdle ==
    /\ overlap_size = 0
    /\ is_streaming = FALSE
    /\ result_queue = <<>>
    /\ threads = <<>>
    /\ starts_left = 0
    /\ returned = [status |-> "none", list |-> <<>>, heard |-> {}]
    /\ gen_pc = "none"
    /\ gen_i = 0
    /\ yielded = <<>>
    /\ last_poll = NoResult
    /\ queue_src = <<>>
    /\ puts = <<>>
    /\ got = <<>>
    /\ gated = {}
    /\ calls = {}
    /\ failed = {}

InitCodec ==
    /\ StreamerIdle
    /\ TrainerOff
    /\ chunk_size \in ChunkSizes
    /\ tk_out = <<>>
    /\ \/ /\ tk_pc = "text"
          /\ tk_text \in Texts
          /\ tk_ids = <<>>
          /\ waveform = <<>>
       \/ /\ tk_pc = "ids"
          /\ tk_text = <<>>
          /\ tk_ids \in LabelSeqs
          \* the chunk given to process_audio_chunk: a full one or a short one
          /\ waveform \in {[k \in 1..n |-> 4] : n \in {chunk_size - 1, chunk_size}}

\* ids = tokenizer.encode(text)
TkEncode ==
    /\ tk_pc = "text"
    /\ tk_ids' = encode(tk_text)
    /\ tk_pc' = "encoded"
    /\ UNCHANGED <<trainVars, streamVars, tk_text, tk_out>>

\* tokenizer.decode(ids)
TkDecode ==
    /\ tk_pc = "encoded"
    /\ tk_out' = decode(tk_ids)
    /\ tk_pc' = "decoded"
    /\ UNCHANGED <<trainVars, streamVars, tk_text, tk_ids>>

\* process_audio_chunk(chunk) when the model's argmax for the chunk is tk_ids
TkTranscribe ==
    /\ tk_pc = "ids"
    /\ tk_out' = process_audio_chunk(waveform, tk_ids)
    /\ tk_pc' = "transcribed"
    /\ UNCHANGED <<trainVars, streamVars, tk_text, tk_ids>>

\* the put without the check of transcription.strip()
TkPublish_always ==
    /\ tk_pc = "transcribed"
    /\ result_queue' = Append(result_queue, tk_out)
    /\ tk_pc' = "published"
    /\ UNCHANGED <<trainVars, failed, chunk_size, overlap_size, starts_left, is_streaming, waveform,
                   threads, returned, gen_pc, gen_i, yielded, last_poll,
                   queue_src, puts, got, gated, calls, tk_text, tk_ids, tk_out>>

\* what the orchestrator does with the transcription of one window:
\* if transcription.strip(): self.result_queue.put(transcription)
TkPublish ==
    /\ tk_pc = "transcribed"
    /\ result_queue' = IF strip(tk_out) # <<>>
                       THEN Append(result_queue, tk_out)
                       ELSE result_queue
    /\ tk_pc' = "published"
    /\ UNCHANGED <<trainVars, failed, chunk_size, overlap_size, starts_left, is_streaming, waveform,
                   threads, returned, gen_pc, gen_i, yielded, last_poll,
                   queue_src, puts, got, gated, calls, tk_text, tk_ids, tk_out>>

NextCodec == TkEncode \/ TkDecode \/ TkTranscribe \/ TkPublish

SpecCodec == InitCodec /\ [][NextCodec]_vars

(***************************************************************************)
(* The trainer: LibriSpeechTTSTrainer.train (test2.ipynb), its epoch loop  *)
(* with validation, early stopping and the checkpoint of the finally       *)
(* clause.  A validation loss is one of a few values; float('inf') is the  *)
(* value above them all.                                                   *)
(***************************************************************************)
\* self.early_stopping_patience = 20
early_stopping_patience == 20

Losses == 1..MaxLoss
\* float('inf')
Infinity == MaxLoss + 1

\* if val_loss <= self.best_val_loss: an improvement that need not be strict
Improves_le(val_loss) == val_loss <= best_val_loss

\* if val_loss < self.best_val_loss:
Improves(val_loss) == val_loss < best_val_loss

\* LibriSpeechTTSTrainer.__init__, with or without a val_dataloader
InitTrain ==
    /\ StreamerIdle
    /\ chunk_size = 2
    /\ waveform = <<>>
    /\ CodecOff
    /\ tr_pc = "idle"
    /\ \E has_val \in BOOLEAN :
          tr_args = [has_val |-> has_val, next |-> 0, stop |-> 0, validate_freq |-> 1]
    /\ calls_left = 2
    /\ current_epoch = 0
    /\ best_val_loss = Infinity
    /\ patience_counter = 0
    /\ tr_hist = [seen |-> {}, last |-> 0, validated |-> 0,
                  exit |-> "none", finals |-> 0]

\* trainer.train(num_epochs, validate_freq=...): enters the try with
\* range(self.current_epoch, self.current_epoch + num_epochs)
train ==
    /\ tr_pc \in {"idle", "returned"}
    /\ calls_left > 0
    /\ calls_left' = calls_left - 1
    /\ \E num_epochs \in {0, 1, MaxEpochs}, validate_freq \in {1, 2} :
          tr_args' = [tr_args EXCEPT !.next = current_epoch,
                                     !.stop = current_epoch + num_epochs,
                                     !.validate_freq = validate_freq]
    /\ tr_pc' = "loop"
    /\ tr_hist' = [tr_hist EXCEPT !.exit = "none", !.finals = 0]
    /\ UNCHANGED <<streamVars, codecVars, current_epoch, best_val_loss,
                   patience_counter>>

\* one pass of `for epoch in range(...)`: the end of the range, or an epoch
\* (train_epoch, validate_epoch when epoch % validate_freq == 0, then the
\* early-stopping block, which may break)
TrainEpoch ==
    /\ tr_pc = "loop"
    /\ IF tr_args.next >= tr_args.stop
       THEN \* the range is used up: the loop ends normally
            /\ tr_pc' = "finally"
            /\ tr_hist' = [tr_hist EXCEPT !.exit = "normal"]
            /\ UNCHANGED <<tr_args, current_epoch, best_val_loss, patience_counter>>
       ELSE LET epoch == tr_args.next
                \* validate_epoch returns {} when there is no val_dataloader
                validated == /\ epoch % tr_args.validate_freq = 0
                             /\ tr_args.has_val
            IN  /\ current_epoch' = epoch
                /\ IF ~validated
                   THEN /\ tr_args' = [tr_args EXCEPT !.next = epoch + 1]
                        /\ UNCHANGED <<tr_pc, best_val_loss, patience_counter, tr_hist>>
                   ELSE \E val_loss \in Losses :
                          LET seen == [tr_hist EXCEPT
                                          !.seen = @ \cup {val_loss},
                                          !.last = val_loss,
                                          !.validated = 1 - @]
                          IN  IF Improves(val_loss)
                              THEN /\ best_val_loss' = val_loss
                                   /\ patience_counter' = 0
                                   /\ tr_args' = [tr_args EXCEPT !.next = epoch + 1]
                                   /\ tr_hist' = seen
                                   /\ tr_pc' = tr_pc
                              ELSE /\ patience_counter' = patience_counter + 1
                                   /\ best_val_loss' = best_val_loss
                                   /\ IF patience_counter' >= early_stopping_patience
                                      THEN \* break
                                           /\ tr_pc' = "finally"
                                           /\ tr_hist' = [seen EXCEPT !.exit = "early"]
                                           /\ tr_args' = tr_args
                                      ELSE /\ tr_pc' = tr_pc
                                           /\ tr_hist' = seen
                                           /\ tr_args' = [tr_args EXCEPT
                                                              !.next = epoch + 1]
    /\ UNCHANGED <<streamVars, codecVars, calls_left>>

\* KeyboardInterrupt during an epoch: the handler saves
\* interrupted_checkpoint.pth
TrainInterrupted ==
    /\ tr_pc = "loop"
    /\ tr_args.next < tr_args.stop
    /\ current_epoch' = tr_args.next
    /\ tr_pc' = "finally"
    /\ tr_hist' = [tr_hist EXCEPT !.exit = "interrupt"]
    /\ UNCHANGED <<streamVars, codecVars, tr_args, calls_left, best_val_loss,
                   patience_counter>>

\* an Exception during an epoch: the handler prints the traceback
TrainFailed ==
    /\ tr_pc = "loop"
    /\ tr_args.next < tr_args.stop
    /\ current_epoch' = tr_args.next
    /\ tr_pc' = "finally"
    /\ tr_hist' = [tr_hist EXCEPT !.exit = "exception"]
    /\ UNCHANGED <<streamVars, codecVars, tr_args, calls_left, best_val_loss,
                   patience_counter>>

\* the finally clause without its save_checkpoint
TrainFinally_nosave ==
    /\ tr_pc = "finally"
    /\ tr_pc' = "returned"
    /\ UNCHANGED <<streamVars, codecVars, tr_args, calls_left, current_epoch,
                   best_val_loss, patience_counter, tr_hist>>

\* finally: self.save_checkpoint(final_path); then train returns
TrainFinally ==
    /\ tr_pc = "finally"
    /\ tr_hist' = [tr_hist EXCEPT !.finals = @ + 1]
    /\ tr_pc' = "returned"
    /\ UNCHANGED <<streamVars, codecVars, tr_args, calls_left, current_epoch,
                   best_val_loss, patience_counter>>

NextTrain == train \/ TrainEpoch \/ TrainInterrupted \/ TrainFailed \/ TrainFinally

SpecTrain == InitTrain /\ [][NextTrain]_vars

(***************************************************************************)
(* Claims about the codec and the greedy decode.                           *)
(***************************************************************************)
\* the characters greedy CTC decoding keeps: one per run of equal labels that
\* is not blank and has a character
RunChars(ids) ==
    Concat([k \in 1..Len(ids) |->
        IF /\ ids[k] # blank_idx
           /\ ids[k] \in 1..(vocab_size - 1)
           /\ (k = 1 \/ ids[k - 1] # ids[k])
        THEN <<chars[ids[k] + 1]>> ELSE <<>>])

\* C1: the text process_audio_chunk returns for a full chunk has exactly one
\* character per run of consecutive identical non-blank labels of the argmax
\* sequence (blank, H, H, I, blank gives "HI").
C1_RepeatCollapse ==
    (tk_pc = "transcribed" /\ Len(waveform) = chunk_size)
        => tk_out = RunChars(tk_ids)

\* every character of the text is, in some letter case, in the vocabulary
InVocabulary(text) ==
    \A k \in 1..Len(text) : \A j \in 1..Len(UpperChar(text[k])) :
        UpperChar(text[k])[j] \in CharSet

\* C2: for every text T of vocabulary characters, decode(encode(T)) is T
\* upper-cased with leading and trailing whitespace trimmed.
C2_RoundTrip ==
    (tk_pc = "decoded" /\ InVocabulary(tk_text))
        => tk_out = strip(upper(tk_text))

(***************************************************************************)
(* Claims about the streamer.                                              *)
(***************************************************************************)
Range(seq) == {seq[k] : k \in 1..Len(seq)}

\* the windows mode `mode` (thread t) has handed to the gate, to the model
GatedBy(mode, t) == {g \in gated : g[1] = mode /\ g[2] = t}
CallsBy(mode, t) == {c \in calls : c[1] = mode /\ c[2] = t}

\* the samples of the window at offset i, when it lies inside the waveform
Window(i) == SubSeq(waveform, i + 1, i + chunk_size)

\* mean squared amplitude of the window at offset i exceeds 0.001
\* (amplitudes are in hundredths: mean of squares > 10)
Loud(i) == SumSq(Window(i)) > 10 * chunk_size

\* C3: a worker that ran to the end of a waveform of length L, with chunk size
\* C and overlap O, 0 <= O < C, has produced max(0, floor((L - C) / (C - O)) + 1)
\* windows.
C3_WindowCount ==
    \A t \in DOMAIN threads :
        threads[t].pc = "exhausted" =>
            LET n == ((Len(waveform) - chunk_size) \div (chunk_size - overlap_size)) + 1
            IN  Cardinality(GatedBy("thread", t)) = IF n > 0 THEN n ELSE 0

\* C4: in every mode, no window whose mean squared amplitude does not exceed
\* the threshold is dispatched to the model, and the windows dispatched are
\* exactly the windows handed to the gate that pass it (a worker between its
\* gate and its dispatch has no window in hand: the two are one step).
C4_GateBlocksInference ==
    /\ \A c \in calls : c \in gated /\ Loud(c[3])
    /\ \A g \in gated : Loud(g[3]) => g \in calls

\* in each of the three modes a window failed the gate although it is not
\* silent, and another window was dispatched
C4_Witness ==
    \A mode \in {"thread", "gen", "upload"} :
        /\ \E g \in gated : g[1] = mode /\ g \notin calls /\ SumSq(Window(g[3])) > 0
        /\ \E c \in calls : c[1] = mode

\* C5: if the results of two windows of one stream at offsets o1 < o2 are both
\* published, the consumer obtains the result of o1 before the result of o2.
C5_OrderPreserved ==
    \A b \in 1..Len(got) : \A p \in Range(puts) :
        (p.src[2] = got[b].src[2] /\ p.src[3] < got[b].src[3])
            => \E a \in 1..(b - 1) : got[a] = p

\* the consumer has obtained the results of two windows of one stream
C5_Witness ==
    \E a, b \in 1..Len(got) : a < b /\ got[a].src[2] = got[b].src[2]

Queued == [k \in 1..Len(queue_src) |-> [src |-> queue_src[k], text |-> result_queue[k]]]

\* C7: every result put on result_queue is either still queued or has been
\* returned by exactly one poll, and nothing else is queued or returned: the
\* results put, in order, are the results returned followed by those queued,
\* and no result was put twice.  So a consumer that has drained the queue has
\* received each result exactly once.
C7_NoLossNoDuplicate ==
    /\ Len(result_queue) = Len(queue_src)
    /\ puts = got \o Queued
    /\ \A a, b \in 1..Len(puts) : puts[a].src = puts[b].src => a = b

\* the worker has finished, it had put two results, and the consumer has
\* drained the queue
C7_Witness ==
    /\ Len(puts) >= 2
    /\ result_queue = <<>>
    /\ got = puts
    /\ \E t \in DOMAIN threads : threads[t].pc = "exhausted"

\* C8: get_latest_transcription can always be taken (it never blocks); on an
\* empty queue it returns None and changes neither the queue nor the flag; on
\* a non-empty queue it removes and returns exactly the oldest result.
C8_PollNeverBlocks ==
    /\ [](ENABLED get_latest_transcription)
    /\ [][(last_poll' # last_poll \/ got' # got) =>
            /\ is_streaming' = is_streaming
            /\ IF result_queue = <<>>
               THEN last_poll' = NoResult /\ result_queue' = <<>> /\ got' = got
               ELSE /\ last_poll' = Result(Head(result_queue))
                    /\ result_queue' = Tail(result_queue)
                    /\ got' = Append(got, [src |-> Head(queue_src),
                                           text |-> Head(result_queue)])
         ]_vars

\* a poll on the empty queue of a running stream returned None after an
\* earlier poll had returned a result
C8_Witness ==
    /\ last_poll = NoResult
    /\ got # <<>>
    /\ result_queue = <<>>
    /\ is_streaming

Silent == \A k \in 1..Len(waveform) : waveform[k] = 0

\* C9: for an input that is all zeros, none of the three delivery surfaces
\* delivers a result: nothing is put on the result queue, the iterator yields
\* nothing, and process_uploaded_audio returns the empty list.
C9_SilenceYieldsNothing ==
    Silent => /\ puts = <<>> /\ result_queue = <<>> /\ got = <<>>
              /\ yielded = <<>>
              /\ returned.list = <<>>

\* a silent input of at least two windows has been run to its end in all
\* three modes
C9_Witness ==
    /\ Silent
    /\ \E t \in DOMAIN threads :
          threads[t].pc = "exhausted" /\ Cardinality(GatedBy("thread", t)) >= 2
    /\ gen_pc = "exhausted" /\ Cardinality(GatedBy("gen", 0)) >= 2
    /\ returned.status = "ok" /\ Cardinality(GatedBy("upload", 0)) >= 2

\* C10: the list process_uploaded_audio returns holds, in window order, one
\* entry (offset / sample_rate, text) for each window that passed the gate and
\* was decoded to a non-empty text, and nothing else; its timestamps are
\* strictly increasing.
C10_UploadResults ==
    returned.status = "ok" =>
        LET list == returned.list
            spoken == {h \in returned.heard : strip(h[2]) # <<>>}
        IN  /\ \A k \in 1..(Len(list) - 1) : TsLess(list[k][1], list[k + 1][1])
            /\ \A k \in 1..Len(list) : list[k][1][2] = sample_rate
            /\ {<<e[1][1], e[2]>> : e \in Range(list)} = spoken
            /\ Len(list) = Cardinality(spoken)
            /\ {h[1] : h \in returned.heard}
                  = {g[3] : g \in {x \in GatedBy("upload", 0) : Loud(x[3])}}

\* two consecutive windows both decoded to "HI" gave two entries
C10_Witness ==
    /\ returned.status = "ok"
    /\ Len(returned.list) >= 2
    /\ returned.list[1][2] = <<"H", "I">>
    /\ returned.list[2][2] = <<"H", "I">>
    /\ returned.list[2][1][1] - returned.list[1][1][1] = chunk_size \div 2

\* C11: every result the worker pushes carries the timestamp of its window
\* next to the text, so what a poll returns determines the offset of the
\* window it came from: two returned results with the same content come from
\* the same offset.
C11_ResultCarriesOffset ==
    \A a, b \in 1..Len(got) :
        got[a].text = got[b].text => got[a].src[3] = got[b].src[3]

\* every label of the sequence is the blank index
AllBlank(ids) == \A k \in 1..Len(ids) : ids[k] = blank_idx

\* C12: when the argmax sequence of a window holds only blank indices,
\* process_audio_chunk returns the empty string and the orchestrator puts no
\* result for the window on the queue.
C12_AllBlankPublishesNothing ==
    (tk_pc \in {"transcribed", "published"} /\ AllBlank(tk_ids))
        => tk_out = <<>> /\ result_queue = <<>>

\* a full chunk whose frames were all blank has gone through the put
C12_Witness ==
    /\ tk_pc = "published"
    /\ Len(waveform) = chunk_size
    /\ Len(tk_ids) >= 2
    /\ AllBlank(tk_ids)
    /\ result_queue = <<>>

\* C13: index 0 is reserved for the blank and belongs to no visible character:
\* the visible characters (space, A-Z, apostrophe) have distinct indices that
\* all differ from blank_idx, so encode never emits the blank index for a
\* character of the vocabulary.
C13_BlankReserved ==
    tk_pc = "encoded" =>
        LET text == upper(tk_text)
        IN  \A k \in 1..Len(text) :
                text[k] \in CharSet =>
                    /\ tk_ids[k] # blank_idx
                    /\ \A c \in CharSet : char_to_idx[c] = tk_ids[k] => c = text[k]

\* the index the vocabulary table gives a character: its position in chars,
\* and the position of the space for a character that is not in chars
TableIndex(c) ==
    IF \E j \in 1..Len(chars) : chars[j] = c
    THEN (CHOOSE j \in 1..Len(chars) : chars[j] = c) - 1
    ELSE (CHOOSE j \in 1..Len(chars) : chars[j] = " ") - 1

\* C14 as stated: encode returns exactly len(text) indices, each in range,
\* the k-th being the table index of the upper-cased k-th character.
C14_LengthPreserving ==
    tk_pc = "encoded" =>
        /\ Len(tk_ids) = Len(tk_text)
        /\ \A k \in 1..Len(tk_ids) : tk_ids[k] \in 0..(vocab_size - 1)

\* C14 (amended): encode never fails and returns exactly len(text.upper())
\* indices, each in range: the k-th is the own index of the k-th character of
\* text.upper() when that character is in the vocabulary, and the index of
\* the space when it is not.
C14_EncodeTotal ==
    tk_pc = "encoded" =>
        /\ Len(tk_ids) = Len(upper(tk_text))
        /\ \A k \in 1..Len(tk_ids) :
              /\ tk_ids[k] \in 0..(vocab_size - 1)
              /\ tk_ids[k] = TableIndex(upper(tk_text)[k])

\* an encoded text with a lower-case letter, a character outside the
\* vocabulary and a character whose upper case is two characters long
C14_Witness ==
    /\ tk_pc = "encoded"
    /\ tk_text = <<"h", "?", "ß">>
    /\ tk_ids = <<8, 0, 19, 19>>

\* C15: in both file-sourced modes (the worker and process_uploaded_audio)
\* the offsets of consecutive windows differ by exactly
\* chunk_size - overlap_size: every window but the first has the window
\* chunk_size - overlap_size samples before it as its predecessor.
C15_FileStepFromOverlap ==
    \A g \in gated :
        g[1] \in {"thread", "upload"} =>
            \/ g[3] = 0
            \/ /\ <<g[1], g[2], g[3] - (chunk_size - overlap_size)>> \in gated
               /\ \A h \in gated :
                     (h[1] = g[1] /\ h[2] = g[2] /\ h[3] < g[3])
                        => h[3] <= g[3] - (chunk_size - overlap_size)

\* the results the worker thread t has put on the queue
PutsBy(t) == {p \in Range(puts) : p.src[1] = "thread" /\ p.src[2] = t}

\* where a failure of the model on the window f has left its caller
Unwound(f) ==
    CASE f[1] = "thread" ->
            /\ threads[f[2]].pc = "raised"
            /\ threads[f[2]].i = f[3]
            /\ \A c \in CallsBy("thread", f[2]) : c[3] <= f[3]
            /\ \A g \in GatedBy("thread", f[2]) : g[3] <= f[3]
            /\ \A p \in PutsBy(f[2]) : p.src[3] < f[3]
      [] f[1] = "gen" ->
            /\ gen_pc = "raised"
            /\ gen_i = f[3]
            /\ \A c \in CallsBy("gen", 0) : c[3] <= f[3]
            /\ \A g \in GatedBy("gen", 0) : g[3] <= f[3]
      [] f[1] = "upload" ->
            /\ returned.status = "raised"
            /\ returned.list = <<>>
            /\ \A c \in CallsBy("upload", 0) : c[3] <= f[3]
            /\ \A g \in GatedBy("upload", 0) : g[3] <= f[3]
            /\ \A h \in returned.heard : h[1] < f[3]

\* C16: a failure of the model is not swallowed.  When the model raises on
\* window k, the exception ends the loop that called it: the worker thread
\* is dead at k and has dispatched (and put a result for) no window from k
\* on; next(gen) and process_uploaded_audio have raised to their caller, no
\* window after k is gated or inferred, the generator yields nothing more
\* and the batch call returns no list; everything yielded or queued before
\* the failure stays as it was.
C16_FailurePropagates ==
    [][ /\ \A f \in failed' : Unwound(f)'
        /\ (failed' # failed) => (yielded' = yielded /\ result_queue' = result_queue
                                  /\ puts' = puts)
        /\ (gen_pc = "raised") => (yielded' = yielded /\ gen_pc' = gen_pc)
        /\ (returned.status = "raised") => (returned' = returned)
      ]_vars

\* the model has failed in the worker on a window that is not the first,
\* after a result of an earlier window was put, with a loud window still
\* ahead in the input
C16_Witness ==
    \E f \in failed :
        /\ f[1] = "thread" /\ f[3] > 0
        /\ PutsBy(f[2]) # {}
        /\ f[3] + step_size + chunk_size < Len(waveform)
        /\ Loud(f[3] + step_size)

\* the windows the generator has gated, and those it gave to the model
GenGated == {g[3] : g \in GatedBy("gen", 0)}
GenCalls == {c[3] : c \in CallsBy("gen", 0)}

GenLazy ==
    /\ gen_pc \in {"none", "created"} => (GenGated = {} /\ GenCalls = {})
    /\ \A o \in GenGated : o < gen_i
    /\ GenCalls \subseteq GenGated

C18_FullWindowsInsideInput ==
    /\ \A g \in gated \cup calls :
          /\ 0 <= g[3]
          /\ g[3] + chunk_size <= Len(waveform)
          /\ Len(ChunkAt(g[3])) = chunk_size
          /\ ChunkAt(g[3]) = Window(g[3])
    /\ Len(waveform) < chunk_size => gated = {}

\* a worker has gone through an input that ends in a tail shorter than a
\* chunk: its next offset lies inside the input, the window there does not
C18_Witness ==
    \E t \in DOMAIN threads :
        /\ threads[t].pc = "exhausted"
        /\ GatedBy("thread", t) # {}
        /\ threads[t].i < Len(waveform)
        /\ threads[t].i + chunk_size > Len(waveform)

\* C19: is_streaming has a single writer, the control entry points: only
\* simulate_streaming_from_file sets it and only stop_streaming clears it.
\* Once it is false it stays false until a stream is started again: neither a
\* step of the worker nor a next() of the generator makes it true.
C19_SingleWriter ==
    [][ (~is_streaming /\ is_streaming') => Len(threads') = Len(threads) + 1 ]_vars

\* the worker thread has left its loop
Exited(t) == threads[t].pc \in {"exhausted", "stopped", "raised"}

\* windows remain for the worker: the loop variable is still inside the range
Remain(t) == InRange(threads[t].i, Len(waveform) - chunk_size, step_size)

\* C20: the worker terminates.  For a finite input and a model that returns,
\* the worker, once started, eventually leaves its loop, its loop variable
\* only ever moving one step forward (one iteration per window); and when
\* stop_streaming() has been called while windows remain (the flag is false
\* and the worker is between two iterations), the worker leaves the loop at
\* the top of its next iteration: it gates none of the remaining windows.
C20_WorkerTerminates ==
    /\ (Len(threads) >= 1) ~> (Len(threads) >= 1 /\ Exited(1))
    /\ [][\A t \in DOMAIN threads :
             threads'[t].i \in {threads[t].i, threads[t].i + step_size}]_vars
    /\ []((Len(threads) >= 1 /\ ~is_streaming /\ threads[1].pc = "top" /\ Remain(1))
            => [](~(Len(threads) >= 1 /\ threads[1].pc = "gate")))

\* the worker threads with an inference in progress
Inferring == {t \in DOMAIN threads : threads[t].pc = "infer"}

\* C21: on one streamer at most one model inference is in progress at any
\* time, and while it is in progress no other window is sliced, gated or
\* inferred, whatever the sequence of start and stop calls: there is never a
\* second worker at work next to the one that is inferring.
C21_NoPipelining ==
    \A t \in Inferring :
        \A u \in DOMAIN threads :
            u # t => threads[u].pc \notin {"gate", "infer"}

\* no result of the first stream is put on the queue after one of the second
StreamsInOrder ==
    \A a, b \in 1..Len(puts) :
        (a < b /\ puts[a].src[1] = "thread" /\ puts[b].src[1] = "thread")
            => puts[a].src[2] <= puts[b].src[2]

\* C22: a restart after a stop is safe.  When stop_streaming() has been
\* followed by a new simulate_streaming_from_file(), the worker of the
\* earlier stream leaves its loop the next time it is at the loop top (it
\* dispatches at most the window it was working on), so no result of the
\* earlier stream is published after a result of the later stream.
C22_RestartSafe ==
    [][ /\ (Len(threads) = 2 /\ threads[1].pc = "top")
              => threads'[1].pc \in {"top", "stopped", "exhausted"}
        /\ StreamsInOrder'
      ]_vars

\* the offsets of the generator's range: range(0, len - chunk_size, chunk_size // 2)
GenOffsets ==
    {o \in 0..(Len(waveform) - chunk_size - 1) : o % (chunk_size \div 2) = 0}

\* C23: stop_streaming() has no effect on an iteration of
\* process_from_microphone_data.  A next() made while the flag is false
\* still gates the next window of the buffer, and infers it if it is
\* speech; the generator is exhausted only when every window of the buffer
\* has been gated and every loud one inferred.
C23_StopDoesNotReachIterator ==
    [][ \/ UNCHANGED <<gen_pc, gen_i>>
        \/ /\ (~is_streaming /\ gen_pc = "suspended" /\ gen_i \in GenOffsets) =>
                 /\ gen_i \in GenGated'
                 /\ Loud(gen_i) => gen_i \in GenCalls'
           /\ gen_pc' = "exhausted" =>
                 /\ GenGated' = GenOffsets
                 /\ GenCalls' = {o \in GenOffsets : Loud(o)}
      ]_vars

\* stop_streaming() has been called in the middle of an iteration: the
\* generator has yielded, the flag is false, and a loud window lies ahead
C23_Witness ==
    /\ gen_pc = "suspended"
    /\ ~is_streaming
    /\ yielded # <<>>
    /\ gen_i \in GenOffsets
    /\ Loud(gen_i)

\* overlap_size >= chunk_size: the worker's step is zero or negative
Degenerate == overlap_size >= chunk_size

\* C24 as stated: with a degenerate overlap the worker's range is empty (or
\* range() fails), so the worker gates no window, gives none to the model,
\* publishes nothing and terminates.
C24_EmptyRange ==
    Degenerate =>
        /\ GatedBy("thread", 1) = {}
        /\ CallsBy("thread", 1) = {}
        /\ puts = <<>>

\* C24 (amended): a degenerate overlap cannot hang the worker.  The worker
\* gives no window to the model, publishes no result and terminates.  A zero
\* step fails before the first iteration.  A negative step gives an empty
\* range when the input has at least chunk_size samples; for a shorter input
\* the range is finite and not empty, its offsets are 0 and below, and the
\* slices gated there are shorter than a chunk, so they never reach the model.
C24_DegenerateTerminates ==
    /\ (Len(threads) >= 1) ~> (Len(threads) >= 1 /\ Exited(1))
    /\ [](Degenerate =>
            /\ CallsBy("thread", 1) = {}
            /\ PutsBy(1) = {}
            /\ result_queue = <<>>
            /\ \A g \in GatedBy("thread", 1) :
                  /\ g[3] <= 0
                  /\ step_size < 0
                  /\ Len(waveform) < chunk_size
                  /\ Len(ChunkAt(g[3])) < chunk_size
            /\ (step_size = 0 /\ Len(threads) >= 1)
                  => (threads[1].i = 0 /\ threads[1].pc \in {"top", "raised"}))

\* with a negative step and an input shorter than a chunk, the worker has
\* gated more than one short slice and has left its loop
C24_Witness ==
    /\ Degenerate
    /\ Len(threads) >= 1
    /\ threads[1].pc = "exhausted"
    /\ Cardinality(GatedBy("thread", 1)) >= 2

\* the least validation loss seen so far; float('inf') before the first
LeastSeen ==
    IF tr_hist.seen = {} THEN Infinity
    ELSE CHOOSE m \in tr_hist.seen : \A v \in tr_hist.seen : m <= v

\* C25: early stopping in train().  best_val_loss never increases and is the
\* least validation loss seen so far; on a validated epoch patience_counter
\* is reset to 0 if the loss is a strict improvement and incremented by 1 if
\* it is not, and it does not change otherwise; the loop breaks exactly when
\* that increment leaves patience_counter at early_stopping_patience (or
\* above it, in a call that began with the counter already there); and
\* train() returns only after the final checkpoint has been saved, however
\* the loop was left (end of the range, early stop, interrupt, exception).
C25_EarlyStopping ==
    [][ /\ best_val_loss' <= best_val_loss
        /\ best_val_loss' = LeastSeen'
        /\ IF tr_hist'.validated # tr_hist.validated
           THEN IF tr_hist'.last < best_val_loss
                THEN /\ best_val_loss' = tr_hist'.last
                     /\ patience_counter' = 0
                     /\ tr_hist'.exit = "none"
                ELSE /\ best_val_loss' = best_val_loss
                     /\ patience_counter' = patience_counter + 1
                     /\ (tr_hist'.exit = "early")
                            <=> (patience_counter' >= early_stopping_patience)
                     /\ tr_hist'.exit \in {"none", "early"}
           ELSE /\ best_val_loss' = best_val_loss
                /\ patience_counter' = patience_counter
                /\ tr_hist'.exit = "early" => tr_hist.exit = "early"
        /\ (tr_pc = "loop" /\ tr_pc' # "loop") =>
              (tr_pc' = "finally" /\ tr_hist'.exit # "none" /\ tr_hist'.finals = 0)
        /\ tr_pc' = "returned" => (tr_hist'.finals = 1 /\ tr_hist'.exit # "none")
      ]_vars

\* train() has returned after an early stop: the counter is at the patience,
\* two different losses were seen, the best is the least of them, and the
\* final checkpoint is saved
C25_Witness ==
    /\ tr_pc = "returned"
    /\ tr_hist.exit = "early"
    /\ patience_counter = early_stopping_patience
    /\ Cardinality(tr_hist.seen) >= 2
    /\ best_val_loss = 1
    /\ tr_hist.finals = 1

====
